---- MODULE Spec2Model ----
(***************************************************************************)
(* State-machine model of generate_report.py: a top-to-bottom script that  *)
(* checks that the input CSV exists, loads it, derives the province        *)
(* column, melts and aggregates the table, builds three charts, serializes *)
(* them to HTML fragments, interpolates them into a fixed page template    *)
(* and writes the page to the output file.                                 *)
(*                                                                         *)
(* Column names of the source are Korean; the model uses romanizations:    *)
(*   sigungumyeong      region-name column          (source line 19)       *)
(*   sido               derived province column     (source line 19)       *)
(*   yeonryeong         age-bracket column          (source line 26)       *)
(*   saeopjang          workplace enrollment count  (source line 27)       *)
(*   jiyeok             regional enrollment count   (source line 27)       *)
(*   imui               voluntary enrollment count  (source line 27)       *)
(*   imui_gyesok        voluntary-continued count   (source line 27)       *)
(*   gaip_yuhyeong      melt var_name               (source line 28)       *)
(*   gaipjasu           melt value_name             (source line 28)       *)
(* Text cells are sequences of one-character strings.                      *)
(***************************************************************************)
EXTENDS Integers, Sequences, FiniteSets

VARIABLES
    pc,             \* position of the script
    fileExists,     \* whether FILE_PATH exists on disk
    csv,            \* content of the input file: [columns, rows]
    fault,          \* the library call of this run that raises, or "none"
    prior,          \* the output file as it was before the run
    outFile,        \* the output file: [exists, content]
    df,             \* the loaded table
    df_melted,      \* the long table
    city_sum,       \* the per-province aggregate
    fig_age,        \* the sunburst chart
    fig_region,     \* the treemap chart
    fig_compare,    \* the bubble chart
    div_age,        \* serialized fragment of fig_age
    div_region,     \* serialized fragment of fig_region
    div_compare,    \* serialized fragment of fig_compare
    html_template,  \* the rendered document
    defined,        \* names bound in the module namespace so far
    stdout,         \* lines printed
    error,          \* the exception that ended the run, or "none"
    exitStatus,     \* process exit status, -1 while running
    readAttempted   \* whether pd.read_csv has been called

vars == <<pc, fileExists, csv, fault, prior, outFile, df, df_melted, city_sum,
          fig_age, fig_region, fig_compare, div_age, div_region, div_compare,
          html_template, defined, stdout, error, exitStatus, readAttempted>>

world == <<fileExists, csv, fault, prior>>
tables == <<df, df_melted, city_sum>>
charts == <<fig_age, fig_region, fig_compare>>
frags == <<div_age, div_region, div_compare>>

(***************************************************************************)
(* Bounds of the explored inputs.                                          *)
(***************************************************************************)
MaxRows == 2
MaxChars == 3
MaxTotal == 2

(***************************************************************************)
(* Program constants.                                                      *)
(***************************************************************************)
FILE_PATH == "gungminyeongeumgongdan_sigungubyeol cheongnyeongyecheung gaipja hyeonhwang_20241231.csv"
OUTPUT_FILE == "national_pension_analysis_report.html"

IdVars == <<"yeonryeong", "sido">>
ValueVars == <<"saeopjang", "jiyeok", "imui", "imui_gyesok">>
AggVars == <<"saeopjang", "jiyeok", "imui">>
CsvColumns == {"sigungumyeong", "yeonryeong", "saeopjang", "jiyeok", "imui",
               "imui_gyesok"}

Range(s) == {s[i] : i \in 1..Len(s)}

(***************************************************************************)
(* Text.                                                                   *)
(***************************************************************************)
Alphabet == {" ", "a", "b"}
IsSpace(ch) == ch = " "
Ord(ch) == CASE ch = " " -> 32 [] ch = "a" -> 97 [] ch = "b" -> 98 [] OTHER -> 99

\* A cell of an object column: a str, or the float NaN pandas stores for an
\* empty field.
Str(s) == [isstr |-> TRUE, chars |-> s]
NaN == [isstr |-> FALSE, chars |-> <<>>]

RECURSIVE LStrip(_)
LStrip(s) ==
    IF s = <<>> THEN <<>>
    ELSE IF IsSpace(Head(s)) THEN LStrip(Tail(s)) ELSE s

RECURSIVE TakeWord(_)
TakeWord(s) ==
    IF s = <<>> THEN <<>>
    ELSE IF IsSpace(Head(s)) THEN <<>> ELSE <<Head(s)>> \o TakeWord(Tail(s))

\* Variant: split(' '), where every single space separates, so that leading
\* or doubled spaces yield empty words.
RECURSIVE split_sep(_)
split_sep(s) ==
    LET w == TakeWord(s) IN
    IF Len(w) = Len(s) THEN <<w>>
    ELSE <<w>> \o split_sep(SubSeq(s, Len(w) + 2, Len(s)))

\* str.split() with no separator: runs of whitespace separate the words and
\* leading and trailing whitespace yields no empty word.
RECURSIVE split(_)
split(s) ==
    LET t == LStrip(s) IN
    IF t = <<>> THEN <<>>
    ELSE LET w == TakeWord(t) IN <<w>> \o split(SubSeq(t, Len(w) + 1, Len(t)))

\* Variant: (x.split() or [''])[0], which yields '' where there is no word.
FirstWordOrEmpty(x) ==
    IF ~x.isstr THEN [raises |-> "AttributeError", value |-> <<>>]
    ELSE IF split(x.chars) = <<>> THEN [raises |-> "none", value |-> <<>>]
    ELSE [raises |-> "none", value |-> split(x.chars)[1]]

\* lambda x: x.split()[0] on cell x: the exception it raises, or "none"
\* and the value it returns.
FirstWord(x) ==
    IF ~x.isstr THEN [raises |-> "AttributeError", value |-> <<>>]
    ELSE IF split(x.chars) = <<>> THEN [raises |-> "IndexError", value |-> <<>>]
    ELSE [raises |-> "none", value |-> split(x.chars)[1]]

\* Python's str ordering: by code point, a proper prefix sorts first.
RECURSIVE StrLess(_, _)
StrLess(s, t) ==
    IF t = <<>> THEN FALSE
    ELSE IF s = <<>> THEN TRUE
    ELSE IF Ord(Head(s)) # Ord(Head(t)) THEN Ord(Head(s)) < Ord(Head(t))
    ELSE StrLess(Tail(s), Tail(t))


RECURSIVE SortStrs(_)
SortStrs(S) ==
    IF S = {} THEN <<>>
    ELSE LET m == CHOOSE x \in S : \A y \in S \ {x} : StrLess(x, y)
         IN <<m>> \o SortStrs(S \ {m})

(***************************************************************************)
(* Tables: [columns |-> set of column names, rows |-> sequence of rows],   *)
(* a row being a function from the column names to cells.                  *)
(***************************************************************************)
NoTable == [columns |-> {}, rows |-> <<>>]

\* pd.read_csv on one field: an empty field of the text column becomes NaN.
ReadCell(c, raw) ==
    IF c = "sigungumyeong"
    THEN IF raw = <<>> THEN NaN ELSE Str(raw)
    ELSE raw

read_csv(file) ==
    [columns |-> file.columns,
     rows |-> [i \in 1..Len(file.rows) |->
                  [c \in file.columns |-> ReadCell(c, file.rows[i][c])]]]

\* Series.apply visits the rows in order; the first failing row raises.
ApplyError(frame) ==
    IF \A i \in 1..Len(frame.rows) :
          FirstWord(frame.rows[i]["sigungumyeong"]).raises = "none"
    THEN "none"
    ELSE LET i == CHOOSE k \in 1..Len(frame.rows) :
                     /\ FirstWord(frame.rows[k]["sigungumyeong"]).raises # "none"
                     /\ \A h \in 1..(k - 1) :
                           FirstWord(frame.rows[h]["sigungumyeong"]).raises = "none"
         IN FirstWord(frame.rows[i]["sigungumyeong"]).raises

\* df['sido'] = df['sigungumyeong'].apply(lambda x: x.split()[0])
WithSido(frame) ==
    [columns |-> frame.columns \cup {"sido"},
     rows |-> [i \in 1..Len(frame.rows) |->
                  [c \in frame.columns \cup {"sido"} |->
                      IF c = "sido"
                      THEN FirstWord(frame.rows[i]["sigungumyeong"]).value
                      ELSE frame.rows[i][c]]]]

\* DataFrame.melt: one frame per value column, in the order of value_vars,
\* each holding every row of the input in input order; the frames are
\* concatenated.
MeltFrame(frame, id_vars, v) ==
    [i \in 1..Len(frame.rows) |->
        [c \in Range(id_vars) \cup {"gaip_yuhyeong", "gaipjasu"} |->
            IF c = "gaip_yuhyeong" THEN v
            ELSE IF c = "gaipjasu" THEN frame.rows[i][v]
            ELSE frame.rows[i][c]]]

\* Variant: the long table built row by row, each input row giving its
\* value columns in turn.
RECURSIVE MeltRowsByRow(_, _, _)
MeltRowsByRow(frame, id_vars, value_vars) ==
    IF frame.rows = <<>> THEN <<>>
    ELSE LET first == [frame EXCEPT !.rows = <<Head(frame.rows)>>]
             rest == [frame EXCEPT !.rows = Tail(frame.rows)]
         IN [j \in 1..Len(value_vars) |->
                MeltFrame(first, id_vars, value_vars[j])[1]]
               \o MeltRowsByRow(rest, id_vars, value_vars)

RECURSIVE MeltRows(_, _, _)
MeltRows(frame, id_vars, value_vars) ==
    IF value_vars = <<>> THEN <<>>
    ELSE MeltFrame(frame, id_vars, Head(value_vars))
            \o MeltRows(frame, id_vars, Tail(value_vars))

\* Variant: the last value column is left out of value_vars.
melt_short(frame, id_vars, value_vars) ==
    [columns |-> Range(id_vars) \cup {"gaip_yuhyeong", "gaipjasu"},
     rows |-> MeltRows(frame, id_vars, SubSeq(value_vars, 1, Len(value_vars) - 1))]

melt(frame, id_vars, value_vars) ==
    [columns |-> Range(id_vars) \cup {"gaip_yuhyeong", "gaipjasu"},
     rows |-> MeltRows(frame, id_vars, value_vars)]

\* Sum of column c over the rows whose column key equals k.
RECURSIVE GroupSum(_, _, _, _)
GroupSum(rows, key, k, c) ==
    IF rows = <<>> THEN 0
    ELSE (IF Head(rows)[key] = k THEN Head(rows)[c] ELSE 0)
            + GroupSum(Tail(rows), key, k, c)

\* Variant: agg 'first' in place of 'sum'.
groupby_first(frame, key, agg_vars) ==
    LET keys == SortStrs({frame.rows[i][key] : i \in 1..Len(frame.rows)})
        first(k) == CHOOSE i \in 1..Len(frame.rows) :
                       /\ frame.rows[i][key] = k
                       /\ \A h \in 1..(i - 1) : frame.rows[h][key] # k
    IN [columns |-> {key} \cup Range(agg_vars),
        rows |-> [g \in 1..Len(keys) |->
                     [c \in {key} \cup Range(agg_vars) |->
                         IF c = key THEN keys[g]
                         ELSE frame.rows[first(keys[g])][c]]]]

\* groupby(key).agg({c: 'sum', ...}).reset_index(): groups sorted by key,
\* one row per group, the key back as a column.
groupby_sum(frame, key, agg_vars) ==
    LET keys == SortStrs({frame.rows[i][key] : i \in 1..Len(frame.rows)})
    IN [columns |-> {key} \cup Range(agg_vars),
        rows |-> [g \in 1..Len(keys) |->
                     [c \in {key} \cup Range(agg_vars) |->
                         IF c = key THEN keys[g]
                         ELSE GroupSum(frame.rows, key, keys[g], c)]]]

(***************************************************************************)
(* Charts and fragments.                                                   *)
(***************************************************************************)
Margin == [t |-> 40, l |-> 0, r |-> 0, b |-> 0]

sunburst(data) ==
    [chart |-> "sunburst", data_frame |-> data, values |-> "gaipjasu",
     color |-> "gaip_yuhyeong", margin |-> Margin]

treemap(data) ==
    [chart |-> "treemap", data_frame |-> data, values |-> "saeopjang",
     color |-> "saeopjang", margin |-> Margin]

scatter(data) ==
    [chart |-> "scatter", data_frame |-> data, values |-> "saeopjang",
     color |-> "sido", margin |-> Margin]

\* Variant: every fragment loads plotly.js, whatever include_plotlyjs says.
to_html_with_js(fig, include_plotlyjs) ==
    [script |-> <<"plotly.js">>, div |-> fig.chart]

\* Figure.to_html(full_html=False, include_plotlyjs=...): a <div> holding
\* the chart, preceded by the <script> tag that loads plotly.js when
\* include_plotlyjs is 'cdn'.
to_html(fig, include_plotlyjs) ==
    [script |-> IF include_plotlyjs = "cdn" THEN <<"plotly.js">> ELSE <<>>,
     div |-> fig.chart]

NoFrag == [script |-> <<>>, div |-> "none"]
NoFig == [chart |-> "none"]

\* Variant: the comparison chart sits in the region-analysis section and
\* the comparison section is left without a chart.
DocumentMisplaced(frag_age, frag_region, frag_compare) ==
    << [tag |-> "a", href |-> "#overview"],
       [tag |-> "a", href |-> "#age-analysis"],
       [tag |-> "a", href |-> "#region-analysis"],
       [tag |-> "a", href |-> "#comparison"],
       [tag |-> "section", id |-> "overview"],
       [tag |-> "/section"],
       [tag |-> "section", id |-> "age-analysis"],
       [tag |-> "chart-container", body |-> frag_age],
       [tag |-> "/section"],
       [tag |-> "section", id |-> "region-analysis"],
       [tag |-> "chart-container", body |-> frag_region],
       [tag |-> "chart-container", body |-> frag_compare],
       [tag |-> "/section"],
       [tag |-> "section", id |-> "comparison"],
       [tag |-> "/section"] >>

Document(frag_age, frag_region, frag_compare) ==
    << [tag |-> "a", href |-> "#overview"],
       [tag |-> "a", href |-> "#age-analysis"],
       [tag |-> "a", href |-> "#region-analysis"],
       [tag |-> "a", href |-> "#comparison"],
       [tag |-> "section", id |-> "overview"],
       [tag |-> "/section"],
       [tag |-> "section", id |-> "age-analysis"],
       [tag |-> "chart-container", body |-> frag_age],
       [tag |-> "/section"],
       [tag |-> "section", id |-> "region-analysis"],
       [tag |-> "chart-container", body |-> frag_region],
       [tag |-> "/section"],
       [tag |-> "section", id |-> "comparison"],
       [tag |-> "chart-container", body |-> frag_compare],
       [tag |-> "/section"] >>


(***************************************************************************)
(* The script, statement by statement.  An unhandled exception ends the    *)
(* process with status 1 and leaves every name bound so far as it is.      *)
(***************************************************************************)
Raise(e) ==
    /\ pc' = "exited"
    /\ error' = e
    /\ exitStatus' = 1

Goto(next) ==
    /\ pc' = next
    /\ UNCHANGED <<error, exitStatus>>

\* Variant: the existence test prints the diagnostic and falls through to the load.
CheckExistsNoExit ==
    /\ pc = "check_exists"
    /\ IF ~fileExists
       THEN stdout' = Append(stdout, <<"Error: File not found at ", FILE_PATH>>)
       ELSE UNCHANGED stdout
    /\ Goto("read_csv")
    /\ UNCHANGED <<world, outFile, tables, charts, frags, html_template,
                   defined, readAttempted>>

\* if not os.path.exists(FILE_PATH): print(...); exit(1)
CheckExists ==
    /\ pc = "check_exists"
    /\ IF ~fileExists
       THEN /\ stdout' = Append(stdout, <<"Error: File not found at ", FILE_PATH>>)
            /\ pc' = "exited"
            /\ error' = "SystemExit"
            /\ exitStatus' = 1
       ELSE /\ Goto("read_csv")
            /\ UNCHANGED stdout
    /\ UNCHANGED <<world, outFile, tables, charts, frags, html_template,
                   defined, readAttempted>>

\* df = pd.read_csv(FILE_PATH, encoding='cp949')
ReadCsv ==
    /\ pc = "read_csv"
    /\ readAttempted' = TRUE
    /\ IF fault = "read_csv"
       THEN /\ Raise("UnicodeDecodeError")
            /\ UNCHANGED <<df, defined>>
       ELSE /\ df' = read_csv(csv)
            /\ defined' = defined \cup {"df"}
            /\ Goto("derive_sido")
    /\ UNCHANGED <<world, outFile, df_melted, city_sum, charts, frags,
                   html_template, stdout>>

\* df['sido'] = df['sigungumyeong'].apply(lambda x: x.split()[0])
DeriveSido ==
    /\ pc = "derive_sido"
    /\ IF "sigungumyeong" \notin df.columns
       THEN /\ Raise("KeyError")
            /\ UNCHANGED df
       ELSE IF ApplyError(df) # "none"
       THEN /\ Raise(ApplyError(df))
            /\ UNCHANGED df
       ELSE /\ df' = WithSido(df)
            /\ Goto("melt")
    /\ UNCHANGED <<world, outFile, df_melted, city_sum, charts, frags,
                   html_template, defined, stdout, readAttempted>>

\* df_melted = df.melt(id_vars=[...], value_vars=[...], ...)
Melt ==
    /\ pc = "melt"
    /\ IF ~((Range(IdVars) \cup Range(ValueVars)) \subseteq df.columns)
       THEN /\ Raise("KeyError")
            /\ UNCHANGED <<df_melted, defined>>
       ELSE /\ df_melted' = melt(df, IdVars, ValueVars)
            /\ defined' = defined \cup {"df_melted"}
            /\ Goto("fig_age")
    /\ UNCHANGED <<world, outFile, df, city_sum, charts, frags, html_template,
                   stdout, readAttempted>>

\* fig_age = px.sunburst(df_melted, ...); fig_age.update_layout(...)
FigAge ==
    /\ pc = "fig_age"
    /\ IF fault = "sunburst"
       THEN /\ Raise("ValueError")
            /\ UNCHANGED <<fig_age, defined>>
       ELSE /\ fig_age' = sunburst("df_melted")
            /\ defined' = defined \cup {"fig_age"}
            /\ Goto("fig_region")
    /\ UNCHANGED <<world, outFile, tables, fig_region, fig_compare, frags,
                   html_template, stdout, readAttempted>>

\* fig_region = px.treemap(df, ...); fig_region.update_layout(...)
FigRegion ==
    /\ pc = "fig_region"
    /\ IF fault = "treemap"
       THEN /\ Raise("ValueError")
            /\ UNCHANGED <<fig_region, defined>>
       ELSE /\ fig_region' = treemap("df")
            /\ defined' = defined \cup {"fig_region"}
            /\ Goto("city_sum")
    /\ UNCHANGED <<world, outFile, tables, fig_age, fig_compare, frags,
                   html_template, stdout, readAttempted>>

\* city_sum = df.groupby('sido').agg({...: 'sum'}).reset_index()
Aggregate ==
    /\ pc = "city_sum"
    /\ IF ~(Range(AggVars) \subseteq df.columns)
       THEN /\ Raise("KeyError")
            /\ UNCHANGED <<city_sum, defined>>
       ELSE /\ city_sum' = groupby_sum(df, "sido", AggVars)
            /\ defined' = defined \cup {"city_sum"}
            /\ Goto("fig_compare")
    /\ UNCHANGED <<world, outFile, df, df_melted, charts, frags, html_template,
                   stdout, readAttempted>>

\* fig_compare = px.scatter(city_sum, ...); fig_compare.update_layout(...)
FigCompare ==
    /\ pc = "fig_compare"
    /\ IF fault = "scatter"
       THEN /\ Raise("ValueError")
            /\ UNCHANGED <<fig_compare, defined>>
       ELSE /\ fig_compare' = scatter("city_sum")
            /\ defined' = defined \cup {"fig_compare"}
            /\ Goto("div_age")
    /\ UNCHANGED <<world, outFile, tables, fig_age, fig_region, frags,
                   html_template, stdout, readAttempted>>

\* div_age = fig_age.to_html(full_html=False, include_plotlyjs='cdn')
ToHtmlAge ==
    /\ pc = "div_age"
    /\ IF fault = "to_html_age"
       THEN /\ Raise("ValueError")
            /\ UNCHANGED <<div_age, defined>>
       ELSE /\ div_age' = to_html(fig_age, "cdn")
            /\ defined' = defined \cup {"div_age"}
            /\ Goto("div_region")
    /\ UNCHANGED <<world, outFile, tables, charts, div_region, div_compare,
                   html_template, stdout, readAttempted>>

\* div_region = fig_region.to_html(full_html=False, include_plotlyjs=False)
ToHtmlRegion ==
    /\ pc = "div_region"
    /\ IF fault = "to_html_region"
       THEN /\ Raise("ValueError")
            /\ UNCHANGED <<div_region, defined>>
       ELSE /\ div_region' = to_html(fig_region, "False")
            /\ defined' = defined \cup {"div_region"}
            /\ Goto("div_compare")
    /\ UNCHANGED <<world, outFile, tables, charts, div_age, div_compare,
                   html_template, stdout, readAttempted>>

\* div_compare = fig_compare.to_html(full_html=False, include_plotlyjs=False)
ToHtmlCompare ==
    /\ pc = "div_compare"
    /\ IF fault = "to_html_compare"
       THEN /\ Raise("ValueError")
            /\ UNCHANGED <<div_compare, defined>>
       ELSE /\ div_compare' = to_html(fig_compare, "False")
            /\ defined' = defined \cup {"div_compare"}
            /\ Goto("html_template")
    /\ UNCHANGED <<world, outFile, tables, charts, div_age, div_region,
                   html_template, stdout, readAttempted>>

\* html_template = f"""...{div_age}...{div_region}...{div_compare}..."""
Render ==
    /\ pc = "html_template"
    /\ html_template' = Document(div_age, div_region, div_compare)
    /\ defined' = defined \cup {"html_template"}
    /\ Goto("open")
    /\ UNCHANGED <<world, outFile, tables, charts, frags, stdout, readAttempted>>

\* Variant: mode 'a', which creates the file but keeps what it holds.
OpenOutputAppend ==
    /\ pc = "open"
    /\ IF fault = "open"
       THEN /\ Raise("OSError")
            /\ UNCHANGED outFile
       ELSE /\ outFile' = [exists |-> TRUE, content |-> outFile.content]
            /\ Goto("write")
    /\ UNCHANGED <<world, tables, charts, frags, html_template, defined,
                   stdout, readAttempted>>

\* with open(OUTPUT_FILE, 'w', encoding='utf-8') as f: mode 'w' creates the
\* file or truncates it; a failing open leaves the file as it is.
OpenOutput ==
    /\ pc = "open"
    /\ IF fault = "open"
       THEN /\ Raise("OSError")
            /\ UNCHANGED outFile
       ELSE /\ outFile' = [exists |-> TRUE, content |-> <<>>]
            /\ Goto("write")
    /\ UNCHANGED <<world, tables, charts, frags, html_template, defined,
                   stdout, readAttempted>>

\* f.write(html_template), then the with block closes f.  A failing write
\* leaves some proper prefix of the document in the file.
WriteOutput ==
    /\ pc = "write"
    /\ IF fault = "write"
       THEN /\ \E k \in 0..(Len(html_template) - 1) :
                 outFile' = [outFile EXCEPT
                                !.content = @ \o SubSeq(html_template, 1, k)]
            /\ Raise("OSError")
       ELSE /\ outFile' = [outFile EXCEPT !.content = @ \o html_template]
            /\ Goto("print_success")
    /\ UNCHANGED <<world, tables, charts, frags, html_template, defined,
                   stdout, readAttempted>>

\* print(f"Successfully generated report: {OUTPUT_FILE}"), the last
\* statement: the process ends with status 0.
PrintSuccess ==
    /\ pc = "print_success"
    /\ stdout' = Append(stdout, <<"Successfully generated report: ", OUTPUT_FILE>>)
    /\ pc' = "done"
    /\ exitStatus' = 0
    /\ UNCHANGED <<world, outFile, tables, charts, frags, html_template,
                   defined, error, readAttempted>>

Next ==
    \/ CheckExists
    \/ ReadCsv
    \/ DeriveSido
    \/ Melt
    \/ FigAge
    \/ FigRegion
    \/ Aggregate
    \/ FigCompare
    \/ ToHtmlAge
    \/ ToHtmlRegion
    \/ ToHtmlCompare
    \/ Render
    \/ OpenOutput
    \/ WriteOutput
    \/ PrintSuccess


(***************************************************************************)
(* Inputs.  A run starts from an input file (present or not), an output    *)
(* file (present or not) and the library call that will raise, if any.     *)
(* Three families of input tables are explored: region names of every      *)
(* shape, enrollment counts of every distribution, and a few tables under  *)
(* every fault and every header with a column missing.                     *)
(***************************************************************************)
Ages == <<"20-24", "25-29">>
AgeOf(i) == Ages[(i % 2) + 1]

RawRow(name, age, counts) ==
    [c \in CsvColumns |->
        CASE c = "sigungumyeong" -> name
          [] c = "yeonryeong" -> age
          [] c = "saeopjang" -> counts[1]
          [] c = "jiyeok" -> counts[2]
          [] c = "imui" -> counts[3]
          [] OTHER -> counts[4]]

Restrict(row, cols) == [c \in cols |-> row[c]]

File(cols, rows) ==
    [columns |-> cols, rows |-> [i \in 1..Len(rows) |-> Restrict(rows[i], cols)]]

Strs(n) == UNION {[1..k -> Alphabet] : k \in 0..n}

\* Sequences of k names of total length at most b.
RECURSIVE NameSeqs(_, _)
NameSeqs(k, b) ==
    IF k = 0 THEN {<<>>}
    ELSE UNION {{<<s>> \o t : t \in NameSeqs(k - 1, b - Len(s))} : s \in Strs(b)}

NameTables ==
    UNION {{[i \in 1..k |-> RawRow(names[i], AgeOf(i), <<i, 1, 0, 2>>)] :
               names \in NameSeqs(k, MaxChars)} : k \in 0..MaxRows}

\* Sequences of k counts of sum at most b.
RECURSIVE CountSeqs(_, _)
CountSeqs(k, b) ==
    IF k = 0 THEN {<<>>}
    ELSE UNION {{<<v>> \o t : t \in CountSeqs(k - 1, b - v)} : v \in 0..b}

CountNames == {<<"b", " ", "a">>, <<"a", " ", "a">>, <<"a", " ", "b">>}

CountTables ==
    UNION {{[i \in 1..k |->
                RawRow(names[i], AgeOf(i), SubSeq(counts, 4 * i - 3, 4 * i))] :
               names \in [1..k -> CountNames],
               counts \in CountSeqs(4 * k, MaxTotal)} : k \in 0..MaxRows}

FaultTables ==
    { <<>>,
      <<RawRow(<<"a", " ", "b">>, Ages[1], <<3, 1, 0, 2>>)>>,
      <<RawRow(<<"b", " ", "a">>, Ages[1], <<1, 0, 2, 0>>),
        RawRow(<<"a", " ", "a">>, Ages[2], <<0, 2, 1, 1>>)>>,
      <<RawRow(<<"a", " ", "b">>, Ages[1], <<3, 1, 0, 2>>),
        RawRow(<<" ">>, Ages[2], <<1, 1, 1, 1>>)>> }

Headers == {CsvColumns} \cup {CsvColumns \ {c} : c \in CsvColumns}

Faults == {"read_csv", "sunburst", "treemap", "scatter", "to_html_age",
           "to_html_region", "to_html_compare", "open", "write"}

OldContent == <<[tag |-> "old"]>>
PriorFiles == { [exists |-> FALSE, content |-> <<>>],
                [exists |-> TRUE, content |-> <<>>],
                [exists |-> TRUE, content |-> OldContent] }

Start ==
    /\ pc = "check_exists"
    /\ outFile = prior
    /\ df = NoTable
    /\ df_melted = NoTable
    /\ city_sum = NoTable
    /\ fig_age = NoFig
    /\ fig_region = NoFig
    /\ fig_compare = NoFig
    /\ div_age = NoFrag
    /\ div_region = NoFrag
    /\ div_compare = NoFrag
    /\ html_template = <<>>
    /\ defined = {}
    /\ stdout = <<>>
    /\ error = "none"
    /\ exitStatus = -1
    /\ readAttempted = FALSE

InitNames ==
    /\ fileExists = TRUE
    /\ csv \in {File(CsvColumns, t) : t \in NameTables}
    /\ fault = "none"
    /\ prior = [exists |-> TRUE, content |-> OldContent]
    /\ Start

InitCounts ==
    /\ fileExists = TRUE
    /\ csv \in {File(CsvColumns, t) : t \in CountTables}
    /\ fault = "none"
    /\ prior = [exists |-> TRUE, content |-> OldContent]
    /\ Start

InitFaults ==
    /\ fileExists \in BOOLEAN
    /\ csv \in {File(h, t) : h \in Headers, t \in FaultTables}
    /\ fault \in Faults \cup {"none"}
    /\ prior \in PriorFiles
    /\ Start

Init == InitNames \/ InitCounts \/ InitFaults

Spec == Init /\ [][Next]_vars


(***************************************************************************)
(* Properties.                                                             *)
(***************************************************************************)
Started == pc # "check_exists"
Ended == pc \in {"done", "exited"}
NothingDerived ==
    /\ "sido" \notin df.columns
    /\ df_melted = NoTable
    /\ city_sum = NoTable
    /\ fig_age = NoFig /\ fig_region = NoFig /\ fig_compare = NoFig
    /\ div_age = NoFrag /\ div_region = NoFrag /\ div_compare = NoFrag
    /\ html_template = <<>>

\* C1: when the input file does not exist, the run prints a diagnostic that
\* contains FILE_PATH and exits with status 1 as its first step, without
\* ever calling read_csv, and the output file stays as it was before the
\* run (absent if it was absent).
MissingFileExits ==
    ~fileExists =>
        /\ readAttempted = FALSE
        /\ "df" \notin defined
        /\ outFile = prior
        /\ Started =>
              /\ pc = "exited"
              /\ exitStatus = 1
              /\ \E n \in 1..Len(stdout) : FILE_PATH \in Range(stdout[n])

MissingFileWitness ==
    /\ ~fileExists
    /\ pc = "exited"
    /\ prior.exists
    /\ prior.content # <<>>

\* The first whitespace-separated token of a text: it starts at the first
\* character that is not whitespace and ends before the next whitespace.
HasToken(s) == \E k \in 1..Len(s) : ~IsSpace(s[k])
FirstToken(s) ==
    LET i == CHOOSE k \in 1..Len(s) :
                 ~IsSpace(s[k]) /\ \A h \in 1..(k - 1) : IsSpace(s[h])
        j == CHOOSE k \in i..Len(s) :
                 /\ \A h \in i..k : ~IsSpace(s[h])
                 /\ k = Len(s) \/ IsSpace(s[k + 1])
    IN SubSeq(s, i, j)

RawName(i) == csv.rows[i]["sigungumyeong"]

\* C3: once the province column exists, every row of the input file is a
\* row of the table and its province is the first whitespace-separated
\* token of its region-name.
ProvinceIsFirstToken ==
    "sido" \in df.columns =>
        /\ Len(df.rows) = Len(csv.rows)
        /\ \A i \in 1..Len(df.rows) :
              /\ HasToken(RawName(i))
              /\ df.rows[i]["sido"] = FirstToken(RawName(i))

ProvinceWitness ==
    /\ "sido" \in df.columns
    /\ \E i \in 1..Len(df.rows) :
          /\ Len(RawName(i)) >= 3
          /\ IsSpace(RawName(i)[1])
          /\ Len(df.rows[i]["sido"]) = 1

BadName(raw) == raw = <<>> \/ \A k \in 1..Len(raw) : IsSpace(raw[k])
HasBadName ==
    /\ "sigungumyeong" \in csv.columns
    /\ \E i \in 1..Len(csv.rows) : BadName(RawName(i))

\* C9: when some row's region-name is empty (read as a non-text NaN) or
\* holds only whitespace, the run never gets past the province derivation:
\* it ends there with an unhandled IndexError or AttributeError and a
\* non-zero status, and no province column, melted table, aggregate, chart
\* or fragment is ever produced.
BadNameFailsRun ==
    HasBadName =>
        /\ NothingDerived
        /\ pc \in {"check_exists", "read_csv", "derive_sido", "exited"}
        /\ pc = "exited" => exitStatus > 0
        /\ (pc = "exited" /\ "df" \in defined) =>
              error \in {"IndexError", "AttributeError"}

BadNameWitness ==
    /\ HasBadName
    /\ pc = "exited"
    /\ error = "IndexError"
    /\ Len(csv.rows) = 2
    /\ ~BadName(RawName(1))


RECURSIVE SumSeq(_)
SumSeq(q) == IF q = <<>> THEN 0 ELSE Head(q) + SumSeq(Tail(q))

ColumnSum(frame, c) == SumSeq([i \in 1..Len(frame.rows) |-> frame.rows[i][c]])

Melted == "df_melted" \in defined

\* The long-table row that input row i gives for value column j.
MeltedRowOf(i, j) ==
    [c \in {"yeonryeong", "sido", "gaip_yuhyeong", "gaipjasu"} |->
        IF c = "gaip_yuhyeong" THEN ValueVars[j]
        ELSE IF c = "gaipjasu" THEN df.rows[i][ValueVars[j]]
        ELSE df.rows[i][c]]

\* The positions in the long table of the rows that come from input row i:
\* one in each block of Len(df.rows) rows.
MeltedPositions(i) == {i + b * Len(df.rows) : b \in 0..3}

\* C4: the long table has exactly 4 rows per input row, and for each input
\* row the counts of its four melted rows (which carry its age bracket and
\* province) sum to the total of its four enrollment-count columns.
MeltCountsAndSums ==
    Melted =>
        /\ Len(df_melted.rows) = 4 * Len(df.rows)
        /\ \A i \in 1..Len(df.rows) :
              /\ \A k \in MeltedPositions(i) :
                    /\ df_melted.rows[k]["yeonryeong"] = df.rows[i]["yeonryeong"]
                    /\ df_melted.rows[k]["sido"] = df.rows[i]["sido"]
              /\ SumSeq([b \in 1..4 |->
                            df_melted.rows[i + (b - 1) * Len(df.rows)]["gaipjasu"]])
                    = SumSeq([j \in 1..4 |-> df.rows[i][ValueVars[j]]])

MeltWitness ==
    /\ Melted
    /\ Len(df.rows) = 2
    /\ df.rows[1]["imui_gyesok"] > 0
    /\ df.rows[2]["saeopjang"] > 0
    /\ df.rows[1]["sido"] # df.rows[2]["sido"]

\* C8 as claimed: the long table is grouped by input row, the four rows of
\* one input row being contiguous and in value-column order.
MeltGroupedByInputRow ==
    Melted =>
        \A i \in 1..Len(df.rows) : \A j \in 1..4 :
            df_melted.rows[4 * (i - 1) + j] = MeltedRowOf(i, j)

\* C8 as the code has it: the long table is grouped by value column in the
\* fixed order (workplace, regional, voluntary, voluntary-continued), and
\* within one value column the rows follow the order of the input rows.
MeltGroupedByValueColumn ==
    Melted =>
        /\ Len(df_melted.rows) = 4 * Len(df.rows)
        /\ \A j \in 1..4 : \A i \in 1..Len(df.rows) :
              df_melted.rows[(j - 1) * Len(df.rows) + i] = MeltedRowOf(i, j)

MeltOrderWitness ==
    /\ Melted
    /\ Len(df.rows) = 2
    /\ df.rows[1]["saeopjang"] # df.rows[2]["saeopjang"]
    /\ df.rows[1]["jiyeok"] # df.rows[1]["saeopjang"]

Aggregated == "city_sum" \in defined
Provinces == {df.rows[i]["sido"] : i \in 1..Len(df.rows)}

\* C5: the aggregate has exactly one row per distinct province of the
\* table, and its workplace counts sum to the sum of the workplace counts
\* of the table.
AggregatePreservesSum ==
    Aggregated =>
        /\ Len(city_sum.rows) = Cardinality(Provinces)
        /\ \A p \in Provinces :
              Cardinality({g \in 1..Len(city_sum.rows) :
                              city_sum.rows[g]["sido"] = p}) = 1
        /\ ColumnSum(city_sum, "saeopjang") = ColumnSum(df, "saeopjang")

AggregateWitness ==
    /\ Aggregated
    /\ Len(df.rows) = 2
    /\ df.rows[1]["sido"] = df.rows[2]["sido"]
    /\ df.rows[1]["sigungumyeong"] # df.rows[2]["sigungumyeong"]
    /\ df.rows[1]["saeopjang"] > 0
    /\ df.rows[2]["saeopjang"] > 0


(***************************************************************************)
(* Reading a document: its navigation links, sections and containers.      *)
(***************************************************************************)
SectionIds == {"overview", "age-analysis", "region-analysis", "comparison"}
At(doc, t) == {k \in 1..Len(doc) : doc[k].tag = t}
NavLinks(doc) == At(doc, "a")
Containers(doc) == At(doc, "chart-container")
\* The chart containers between the opening tag of section id and the next
\* closing tag.
ContainersIn(doc, id) ==
    {k \in Containers(doc) :
        \E o \in At(doc, "section") :
            /\ doc[o].id = id
            /\ o < k
            /\ \A c \in At(doc, "/section") : ~(o < c /\ c < k)}
SectionsNamed(doc, id) == {o \in At(doc, "section") : doc[o].id = id}
Href(id) ==
    CASE id = "overview" -> "#overview"
      [] id = "age-analysis" -> "#age-analysis"
      [] id = "region-analysis" -> "#region-analysis"
      [] OTHER -> "#comparison"
LinksToSection(doc, id) == {k \in NavLinks(doc) : doc[k].href = Href(id)}

FourLinksOnePerSection(doc) ==
    /\ Cardinality(NavLinks(doc)) = 4
    /\ Cardinality(At(doc, "section")) = 4
    /\ \A id \in SectionIds :
          /\ Cardinality(LinksToSection(doc, id)) = 1
          /\ Cardinality(SectionsNamed(doc, id)) = 1

\* C2 as claimed: the written file holds four chart containers and four
\* navigation links, one per section, and every link leads to a section
\* that holds one chart container.
FourChartContainers ==
    pc = "done" =>
        /\ Cardinality(Containers(outFile.content)) = 4
        /\ FourLinksOnePerSection(outFile.content)
        /\ \A id \in SectionIds :
              Cardinality(ContainersIn(outFile.content, id)) = 1

\* C2 as the code has it: the written file holds three chart containers and
\* four navigation links, one link per section; every link's anchor is the
\* id of exactly one section; the sections age-analysis, region-analysis
\* and comparison hold one chart container each and overview holds none.
ThreeChartContainers ==
    pc = "done" =>
        /\ Cardinality(Containers(outFile.content)) = 3
        /\ FourLinksOnePerSection(outFile.content)
        /\ \A id \in SectionIds \ {"overview"} :
              Cardinality(ContainersIn(outFile.content, id)) = 1
        /\ ContainersIn(outFile.content, "overview") = {}

ReportWitness ==
    /\ pc = "done"
    /\ prior.content # <<>>
    /\ Len(df.rows) > 0

IncludesLibrary(frag) == frag.script # <<>>
Rendered == "html_template" \in defined

\* C7: of the three fragments interpolated into the document exactly one
\* includes the plotly.js reference, the other two omit it, and the one
\* that includes it stands in the document before both that omit it.
LibraryIncludedOnceFirst ==
    Rendered =>
        LET doc == html_template
            with == {k \in Containers(doc) : IncludesLibrary(doc[k].body)}
            without == {k \in Containers(doc) : ~IncludesLibrary(doc[k].body)}
        IN /\ {doc[k].body : k \in Containers(doc)}
                 = {div_age, div_region, div_compare}
           /\ Cardinality(Containers(doc)) = 3
           /\ Cardinality(with) = 1
           /\ Cardinality(without) = 2
           /\ \A k \in with : \A h \in without : k < h

LibraryWitness ==
    /\ Rendered
    /\ IncludesLibrary(div_age)
    /\ pc = "done"

EarlierStagesDone ==
    {"df", "df_melted", "city_sum", "fig_age", "fig_region", "fig_compare",
     "div_age", "div_region", "div_compare", "html_template"} \subseteq defined

\* The output file is touched only once every earlier stage has completed,
\* and a run that fails at an earlier stage leaves it as it was.
WrittenOnlyAtTheEnd ==
    /\ outFile # prior => EarlierStagesDone /\ "sido" \in df.columns
    /\ (pc = "exited" /\ ~Rendered) => outFile = prior

\* C10 as claimed: the above, and every run that reaches the writer ends
\* with the prior content replaced by the full rendered document.
WriterAlwaysReplaces ==
    /\ WrittenOnlyAtTheEnd
    /\ (Ended /\ Rendered) =>
          outFile = [exists |-> TRUE, content |-> html_template]

IsPrefix(p, q) == Len(p) <= Len(q) /\ p = SubSeq(q, 1, Len(p))

\* C10 as the code has it: the output file is touched only once every
\* earlier stage has completed, so a run that fails earlier leaves it as it
\* was; a run whose open fails leaves it as it was too; once the open has
\* succeeded the prior content is gone and the file holds a prefix of the
\* rendered document; and a run that completes the write ends with the
\* file holding exactly the full rendered document.
WriterReplacesOnSuccess ==
    /\ WrittenOnlyAtTheEnd
    /\ (pc = "exited" /\ Rendered /\ fault = "open") => outFile = prior
    /\ (pc \in {"write", "print_success"}
            \/ (Ended /\ Rendered /\ fault # "open")) =>
          /\ outFile.exists
          /\ IsPrefix(outFile.content, html_template)
    /\ pc \in {"print_success", "done"} =>
          outFile = [exists |-> TRUE, content |-> html_template]

WriterWitness ==
    /\ pc = "done"
    /\ prior.content = OldContent
    /\ outFile.content # prior.content

====
